---- MODULE Spec2Model ----
(***************************************************************************)
(* Story-generation workflow (app/workflows/story_generation.py) and the   *)
(* reading-session manager (app/services/story_session_service.py,         *)
(* app/services/story_service.py, app/api/api_v1/endpoints/stories.py).    *)
(*                                                                         *)
(* Safety scores are kept in tenths: 1.0 is 10, 0.8 is 8, 0.7 is 7,        *)
(* 0.5 is 5 and the 0.3 of the routing rule is 3.                          *)
(***************************************************************************)
EXTENDS Integers, Sequences, FiniteSets, TLC

(* ------------------------------ bounds --------------------------------- *)

\* longest choice list the model call returns
MaxChoices == 2

\* session rows
MaxSessions == 2

\* chapter rows
MaxChapters == 2

(* ------------------------- program constants --------------------------- *)

\* Settings.CONTENT_SAFETY_THRESHOLD = 0.5
CONTENT_SAFETY_THRESHOLD == 5

\* the 0.3 of should_regenerate_content and enhance_content_if_needed
REGENERATE_BELOW == 3

\* wpm_map.get(reading_level, {}).get(child_age, 120)
DEFAULT_WPM == 120

(* ------------------------------ state ---------------------------------- *)

VARIABLES
    node,        \* workflow: the node the graph executes next
    state,       \* workflow: the StoryGenerationState dict
    threshold,   \* workflow: settings.CONTENT_SAFETY_THRESHOLD of this process
    result,      \* workflow: what generate_personalized_story returned
    response,    \* what POST /generate answered for that result
    safety,      \* safety workflow: the ContentSafetyState dict and its node
    context,     \* context builder: a request, its initial state and prompt
    stream,      \* streaming variant: events yielded, final_state, rows
    db,          \* committed rows: stories, chapters, choices, branches, sessions
    workers      \* start_story_session calls in flight, one per server worker

wfvars == <<node, state, threshold, result, response>>

svars == <<db, workers>>

vars == <<node, state, threshold, result, response, safety, context, stream,
          db, workers>>

(* --------------------------- workflow inputs --------------------------- *)

\* child_preferences is a Dict[str, Any]: the age is an int for every child
\* the service passes, and anything (here None) for a direct caller of the
\* compiled workflow.
ChildPreferences ==
    { [age_is_int |-> TRUE,  age |-> 7, reading_level |-> "beginner"],
      [age_is_int |-> TRUE,  age |-> 9, reading_level |-> "advanced"],
      [age_is_int |-> FALSE, age |-> 0, reading_level |-> "beginner"] }

\* the process settings: the default threshold and a stricter override
Thresholds == {CONTENT_SAFETY_THRESHOLD, 8}

\* word counts of a generated text: empty, short, and one that rounds down
WordCounts == {0, 40, 250}

\* A story text, by what the checks read of it: whether it contains one of
\* the inappropriate_themes, whether it contains afraid/worried/scared, how
\* many words it has, and whether format_story_content has rewritten it.
Contents ==
    [theme : BOOLEAN, intense : BOOLEAN, words : WordCounts, formatted : {FALSE}]

EmptyContent == [theme |-> FALSE, intense |-> FALSE, words |-> 0, formatted |-> FALSE]

\* A choice, by whether its text is non-empty.
ChoiceLists ==
    UNION { [1..n -> [has_text : BOOLEAN]] : n \in 0..MaxChoices }

(* -------------------------- workflow functions ------------------------- *)

Min(a, b) == IF a <= b THEN a ELSE b
Max(a, b) == IF a >= b THEN a ELSE b

\* check_content_safety with an except branch that scores 0.0
check_content_safety_zero_on_error(st, thr) ==
    IF ~st.child_preferences.age_is_int
    THEN [safety_score |-> 0, content_approved |-> FALSE,
          content_issues |-> {"Safety check failed - manual review required"}]
    ELSE LET s1 == IF st.story_content.theme THEN Min(10, 7) ELSE 10
             young == st.child_preferences.age < 8 /\ st.story_content.intense
             s2 == IF young THEN Min(s1, 8) ELSE s1
         IN [safety_score |-> s2,
             content_approved |-> (s2 >= thr),
             content_issues |->
                 (IF st.story_content.theme THEN {"Contains theme"} ELSE {})
                 \cup (IF young THEN {"May be too intense for younger children"} ELSE {})]

\* check_content_safety: the keyword checks, and the except branch taken when
\* "child_age < 8" raises on a non-integer age.
check_content_safety(st, thr) ==
    IF ~st.child_preferences.age_is_int
    THEN [safety_score |-> 5, content_approved |-> FALSE,
          content_issues |-> {"Safety check failed - manual review required"}]
    ELSE LET s1 == IF st.story_content.theme THEN Min(10, 7) ELSE 10
             young == st.child_preferences.age < 8 /\ st.story_content.intense
             s2 == IF young THEN Min(s1, 8) ELSE s1
         IN [safety_score |-> s2,
             content_approved |-> (s2 >= thr),
             content_issues |->
                 (IF st.story_content.theme THEN {"Contains theme"} ELSE {})
                 \cup (IF young THEN {"May be too intense for younger children"} ELSE {})]

\* should_regenerate_content with the two not-approved labels exchanged
should_regenerate_content_swapped(st) ==
    IF ~st.content_approved
    THEN IF st.safety_score < REGENERATE_BELOW THEN "enhance" ELSE "regenerate"
    ELSE "finalize"

\* should_regenerate_content
should_regenerate_content(st) ==
    IF ~st.content_approved
    THEN IF st.safety_score < REGENERATE_BELOW THEN "regenerate" ELSE "enhance"
    ELSE "finalize"

\* conditional edges that send "enhance" straight to the metrics
ConditionalEdges_enhance_finalizes ==
    [regenerate |-> "generate_content",
     enhance    |-> "calculate_metrics",
     finalize   |-> "calculate_metrics"]

\* the conditional edges of create_story_generation_workflow
ConditionalEdges ==
    [regenerate |-> "generate_content",
     enhance    |-> "enhance_content",
     finalize   |-> "calculate_metrics"]

\* Python 3 round() of a/b for a >= 0, b > 0: to nearest, ties to even
PyRound(a, b) ==
    LET q == a \div b
        r == a % b
    IN IF 2 * r < b THEN q
       ELSE IF 2 * r > b THEN q + 1
       ELSE IF q % 2 = 0 THEN q ELSE q + 1

wpm_map(level, age) ==
    IF level = "beginner" /\ age \in 7..12 THEN 80 + 10 * (age - 7)
    ELSE IF level = "intermediate" /\ age \in 7..12 THEN 100 + 20 * (age - 7)
    ELSE IF level = "advanced" /\ age \in 7..12 THEN 120 + 30 * (age - 7)
    ELSE DEFAULT_WPM

\* calculate_reading_metrics
calculate_reading_metrics(st) ==
    LET prefs == st.child_preferences
        wpm == IF prefs.age_is_int THEN wpm_map(prefs.reading_level, prefs.age)
               ELSE DEFAULT_WPM
    IN [story_content |-> [st.story_content EXCEPT !.formatted = TRUE],
        estimated_reading_time |-> Max(1, PyRound(st.story_content.words, wpm)),
        vocabulary_level |-> prefs.reading_level]

(* --------------------------- workflow actions -------------------------- *)

\* initial_state of generate_personalized_story
InitialState(prefs) ==
    [child_preferences |-> prefs,
     story_content |-> EmptyContent,
     choices |-> <<>>,
     safety_score |-> 0,
     content_approved |-> FALSE,
     content_issues |-> {},
     estimated_reading_time |-> 0,
     vocabulary_level |-> ""]

NoResult == [success |-> FALSE, returned |-> FALSE, story_content |-> EmptyContent,
             choices |-> <<>>, safety_score |-> 0, content_approved |-> FALSE]

\* an empty database, no request in flight
EmptyDb == [stories |-> <<>>, chapters |-> <<>>, choices |-> <<>>,
            branches |-> <<>>, sessions |-> <<>>]

\* requests that other requests may overtake between two of their statements
Workers == {1}

IdleWorker == [pc |-> "idle", child_id |-> 0, story_id |-> 0, found |-> 0]

SessionsIdle ==
    /\ db = EmptyDb
    /\ workers = [w \in Workers |-> IdleWorker]

\* no request is being prepared
NoContext == [phase |-> "idle"]

\* generate_personalized_story_stream has not been called
NoStream == [phase |-> "idle"]

\* check_story_safety has not been called
NoSafetyRun == [node |-> "idle"]

\* no answer of POST /generate yet
NoResponse == [status |-> 0, content |-> "none"]

InitWorkflow ==
    /\ node = "generate_content"
    /\ state \in {InitialState(p) : p \in ChildPreferences}
    /\ threshold \in Thresholds
    /\ result = NoResult
    /\ response = NoResponse
    /\ safety = NoSafetyRun
    /\ context = NoContext
    /\ stream = NoStream
    /\ SessionsIdle

\* generate_story_content: the structured model call, which returns a
\* StoryContent (any text, any list of choices) or raises.
GenerateContent ==
    /\ node = "generate_content"
    /\ \/ \E c \in Contents, ch \in ChoiceLists :
             /\ state' = [state EXCEPT !.story_content = c, !.choices = ch]
             /\ node' = "safety_check"
       \/ /\ node' = "failed"
          /\ state' = state
    /\ UNCHANGED <<threshold, result, response, safety, context, stream, svars>>

\* check_content_safety followed by the conditional edge
SafetyCheck ==
    /\ node = "safety_check"
    /\ LET out == check_content_safety(state, threshold)
           st2 == [state EXCEPT !.safety_score = out.safety_score,
                                !.content_approved = out.content_approved,
                                !.content_issues = out.content_issues]
       IN /\ state' = st2
          /\ node' = ConditionalEdges[should_regenerate_content(st2)]
    /\ UNCHANGED <<threshold, result, response, safety, context, stream, svars>>

\* enhance_content_if_needed: the states it can leave.  For rejected content
\* scored above 0.3 the model's reply replaces the text, or the call raises
\* and {} is returned; otherwise {} is returned.
enhance_content_if_needed(st) ==
    IF ~st.content_approved /\ st.safety_score > REGENERATE_BELOW
    THEN { [st EXCEPT !.story_content = c] : c \in Contents } \cup {st}
    ELSE {st}

\* enhance_content_if_needed, then the edge back to safety_check
EnhanceContent ==
    /\ node = "enhance_content"
    /\ state' \in enhance_content_if_needed(state)
    /\ node' = "safety_check"
    /\ UNCHANGED <<threshold, result, response, safety, context, stream, svars>>

\* calculate_reading_metrics, then the edge to END
CalculateMetrics ==
    /\ node = "calculate_metrics"
    /\ LET out == calculate_reading_metrics(state)
       IN state' = [state EXCEPT !.story_content = out.story_content,
                                 !.estimated_reading_time = out.estimated_reading_time,
                                 !.vocabulary_level = out.vocabulary_level]
    /\ node' = "END"
    /\ UNCHANGED <<threshold, result, response, safety, context, stream, svars>>

\* generate_personalized_story after story_workflow.invoke: the success dict
\* built from the final state, or the error dict of the except branch
ReturnResult ==
    /\ node \in {"END", "failed"}
    /\ ~result.returned
    /\ result' = IF node = "END"
                 THEN [success |-> TRUE, returned |-> TRUE,
                       story_content |-> state.story_content,
                       choices |-> state.choices,
                       safety_score |-> state.safety_score,
                       content_approved |-> state.content_approved]
                 ELSE [NoResult EXCEPT !.returned = TRUE]
    /\ UNCHANGED <<node, state, threshold, response, safety, context, stream, svars>>

(* --------------------------- workflow claims --------------------------- *)

\* C1: after every safety_check the next node is calculate_metrics exactly
\* when content_approved is true; otherwise it is generate_content when
\* safety_score < 0.3 and enhance_content in every other case; nothing but
\* content_approved and safety_score of the checked state decides it.
C1_RoutingAfterSafetyCheck ==
    [][node = "safety_check" =>
          node' = IF state'.content_approved THEN "calculate_metrics"
                  ELSE IF state'.safety_score < 3 THEN "generate_content"
                  ELSE "enhance_content"]_vars

\* a safety check rejected the content and routed it to the enhancer
C1_Witness ==
    /\ node = "enhance_content"
    /\ ~state.content_approved
    /\ state.safety_score >= 3

C3_ChoicesNeverEmpty ==
    /\ node = "END" => Len(state.choices) >= 1
    /\ (result.returned /\ result.success) => Len(result.choices) >= 1

\* C4: in every state the safety check produced, and in every result,
\* content_approved is true exactly when safety_score >= the threshold.
C4_ApprovedIffAtThreshold ==
    /\ state.content_approved <=> (state.safety_score >= threshold)
    /\ (result.returned /\ result.success) =>
           (result.content_approved <=> (result.safety_score >= threshold))

(* ============================ session manager ========================== *)

(* ------------------------------ inputs --------------------------------- *)

Children == {1, 2}

\* Story(total_chapters=3) of POST /generate
GENERATED_TOTAL_CHAPTERS == 3

\* is_ending=generation_request.chapter_number >= 3 of POST /generate
ENDING_FROM_CHAPTER == 3

\* StoryGenerationRequest.chapter_number of POST /generate, an int the
\* schema does not validate: the default, the number before it, and the
\* first one whose branch is an ending
RequestChapters == {0, 1, 3}

\* option_index of a choice request: negative, first, second
OptionIndexes == {-1, 0, 1}

\* ChoiceSelectionRequest.choice_id: a digit string (kind "int", its value
\* in id), or a special id that int() rejects
RequestChoiceIds ==
    { [kind |-> "int", id |-> 1],
      [kind |-> "continue", id |-> 0] }

\* Story texts as rows store them: the empty string, the inline text that
\* POST /generate writes into a branch, and the
\* text of the orchestrator run that found n chapter rows committed.
NoText == [kind |-> "empty", n |-> 0]
InlineText == [kind |-> "inline", n |-> 0]
GeneratedText(n) == [kind |-> "generated", n |-> n]

\* lengths of the choice list of a finished run: none, or some
ChoiceCounts == {0, 1}

\* What generate_personalized_story returns to the session manager: the
\* error dict, or the success dict of a finished workflow run.  No node of
\* the workflow writes choice_question and the initial state sets it to "",
\* so result.get("choice_question") is never a non-empty string.
GenerationResults ==
    { [success |-> FALSE, nchoices |-> 0, choice_question |-> FALSE] }
    \cup { [success |-> TRUE, nchoices |-> n, choice_question |-> FALSE] :
              n \in ChoiceCounts }

(* ------------------------------ helpers -------------------------------- *)

\* int((n - 1) / total_chapters * 100)
ChapterProgress(n, total) == ((n - 1) * 100) \div total

\* StorySession.add_choice, and the endpoint's own append for special ids,
\* as the commit stores them.  choices_made is a plain JSON column: an empty
\* list is replaced by a new list, an assignment the flush writes with the
\* record appended to it; a list that has records is appended to in place,
\* which the unit of work does not detect and no commit writes.
add_choice(sess, choice_id, option_index) ==
    IF sess.choices_made = <<>>
    THEN [sess EXCEPT !.choices_made =
             <<[choice_id |-> choice_id, option_index |-> option_index]>>]
    ELSE sess

\* the StorySession(...) constructed by start_story_session
NewSession(child_id, story_id) ==
    [child_id |-> child_id, story_id |-> story_id, current_chapter |-> 1,
     choices_made |-> <<>>, is_completed |-> FALSE,
     completion_percentage |-> 0]

\* the query of start_story_session: ids of the non-completed sessions of
\* the pair
ActiveSessions_any(d, child_id, story_id) ==
    { i \in DOMAIN d.sessions :
        /\ d.sessions[i].child_id = child_id
        /\ d.sessions[i].story_id = story_id }

ActiveSessions(d, child_id, story_id) ==
    { i \in DOMAIN d.sessions :
        /\ d.sessions[i].child_id = child_id
        /\ d.sessions[i].story_id = story_id
        /\ d.sessions[i].is_completed = FALSE }

\* StoryService._create_story_choices on a session with pending changes:
\* without a question it raises, and its except branch rolls the pending
\* changes back; with one it commits the Choice (and everything pending) and
\* then the branches.  Returns the committed and the pending rows.
create_story_choices(committed, pending, story_id, chapter_number, nchoices, question) ==
    IF ~question
    THEN [committed |-> committed, pending |-> committed]
    ELSE LET cid == Len(pending.choices) + 1
             withChoice == [pending EXCEPT !.choices =
                 Append(@, [story_id |-> story_id, chapter_number |-> chapter_number,
                            n_options |-> nchoices])]
             newBranches == [i \in 1..nchoices |->
                 [choice_id |-> cid, choice_option_index |-> i - 1,
                  content |-> NoText, leads_to_chapter |-> chapter_number + 1,
                  is_ending |-> FALSE]]
             withBranches == [withChoice EXCEPT !.branches = @ \o newBranches]
         IN [committed |-> withBranches, pending |-> withBranches]

\* what a call returns: its "success", whether the failure is the
\* orchestrator's, "is_ending" and the length of "new_choices" (FALSE and 0
\* in an error dict, which has neither key), and "error" ("" in a success
\* dict, which has no such key)
Result(ok, failed, ending, nch) ==
    [success |-> ok, orchestrator_failed |-> failed,
     is_ending |-> ending, new_choices |-> nch, error |-> ""]

Failure(failed, err) == [Result(FALSE, failed, FALSE, 0) EXCEPT !.error = err]

(* ---------------------------- story catalog ---------------------------- *)

\* The rows POST /generate with chapterNumber = chapter_number commits into
\* an empty database for a run that returned nchoices choices: a 3-chapter
\* Story, no chapter row, and per choice one Choice with a single option and
\* its branch with inline content.
GeneratedStory(chapter_number, nchoices) ==
    [stories |-> << [total_chapters |-> GENERATED_TOTAL_CHAPTERS] >>,
     chapters |-> << >>,
     choices |-> [i \in 1..nchoices |->
                     [story_id |-> 1, chapter_number |-> chapter_number,
                      n_options |-> 1]],
     branches |-> [i \in 1..nchoices |->
                     [choice_id |-> i, choice_option_index |-> 0,
                      content |-> InlineText,
                      leads_to_chapter |-> chapter_number + 1,
                      is_ending |-> (chapter_number >= ENDING_FROM_CHAPTER)]],
     sessions |-> << >>]

\* the story of a run that returned one choice
Catalog(chapter_number) == GeneratedStory(chapter_number, 1)

(* --------------------------- POST /generate ---------------------------- *)

\* The answer of POST /generate for a result of generate_personalized_story:
\* HTTP 500 for the error dict; otherwise the paragraphs of the cleaned text,
\* or the fixed sentence when the text is empty.
generate_story_response(res) ==
    IF ~res.success
    THEN [status |-> 500, content |-> "none"]
    ELSE [status |-> 200,
          content |-> IF res.story_content.words = 0
                      THEN "Once upon a time..." ELSE "story"]

\* POST /generate after generate_personalized_story returned: the rows it
\* commits and the response it builds
GenerateStory ==
    /\ result.returned
    /\ response = NoResponse
    /\ response' = generate_story_response(result)
    /\ IF result.success
       THEN \E c \in RequestChapters : db' = GeneratedStory(c, Len(result.choices))
       ELSE db' = db
    /\ UNCHANGED <<node, state, threshold, result, safety, context, stream, workers>>

NextWorkflow ==
    \/ GenerateContent
    \/ SafetyCheck
    \/ EnhanceContent
    \/ CalculateMetrics
    \/ ReturnResult
    \/ GenerateStory

SpecWorkflow == InitWorkflow /\ [][NextWorkflow]_vars

\* each node runs as soon as the previous one returns
SpecWorkflowFair == SpecWorkflow /\ WF_vars(NextWorkflow)

(* ---------------------------- start session ---------------------------- *)

\* start_story_session after its query returned found (0 for None): resume
\* that session, or add and commit a new one
start_story_session(d, child_id, story_id, found) ==
    IF found # 0
    THEN d
    ELSE [d EXCEPT !.sessions = Append(@, NewSession(child_id, story_id))]

\* what .first() can return for the pair: one of its active sessions, or None
FirstActive(d, child_id, story_id) ==
    LET active == ActiveSessions(d, child_id, story_id)
    IN IF active = {} THEN {0} ELSE active

\* start_story_session in a request that runs without another request
\* committing between its query and its commit
StartStorySessionOf(child_id, story_id) ==
    /\ \E found \in FirstActive(db, child_id, story_id) :
          /\ found = 0 => Len(db.sessions) < MaxSessions
          /\ db' = start_story_session(db, child_id, story_id, found)
    /\ UNCHANGED <<workers, safety, context, stream, wfvars>>

StartStorySession ==
    \E child_id \in Children, story_id \in DOMAIN db.stories :
       StartStorySessionOf(child_id, story_id)

\* start_story_session in a request served by worker w while other requests
\* commit, first half: the query
StartQuery(w) ==
    /\ workers[w].pc = "idle"
    /\ \E child_id \in Children, story_id \in DOMAIN db.stories :
          \E found \in FirstActive(db, child_id, story_id) :
             workers' = [workers EXCEPT ![w] =
                 [pc |-> "queried", child_id |-> child_id,
                  story_id |-> story_id, found |-> found]]
    /\ UNCHANGED <<db, safety, context, stream, wfvars>>

\* second half: the resume, or the insert and commit
StartFinish(w) ==
    /\ workers[w].pc = "queried"
    /\ LET r == workers[w]
       IN /\ r.found = 0 => Len(db.sessions) < MaxSessions
          /\ db' = start_story_session(db, r.child_id, r.story_id, r.found)
    /\ workers' = [workers EXCEPT ![w] = IdleWorker]
    /\ UNCHANGED <<safety, context, stream, wfvars>>

InitSession ==
    /\ db \in { Catalog(c) : c \in RequestChapters }
    /\ workers = [w \in Workers |-> IdleWorker]
    /\ node = "generate_content"
    /\ state = InitialState(CHOOSE p \in ChildPreferences : p.age = 9)
    /\ threshold = CONTENT_SAFETY_THRESHOLD
    /\ result = NoResult
    /\ response = NoResponse
    /\ safety = NoSafetyRun
    /\ context = NoContext
    /\ stream = NoStream

(* ------------------------------ advancing ------------------------------ *)

\* length of the new_choices list built for a chapter: the options of every
\* Choice row of (story_id, chapter_number)
RECURSIVE OptionsOf(_, _, _, _)
OptionsOf(rows, story_id, chapter_number, i) ==
    IF i > Len(rows) THEN 0
    ELSE (IF rows[i].story_id = story_id /\ rows[i].chapter_number = chapter_number
          THEN rows[i].n_options ELSE 0)
         + OptionsOf(rows, story_id, chapter_number, i + 1)

\* advance_to_next_chapter, "Update session": the pointer, and either the
\* completion of an ending chapter or the percentage of a middle one
AdvanceUpdate_resetting(sess, next_chapter, is_ending, total) ==
    IF is_ending
    THEN [sess EXCEPT !.current_chapter = next_chapter,
                      !.is_completed = TRUE,
                      !.completion_percentage = 100]
    ELSE [sess EXCEPT !.current_chapter = next_chapter,
                      !.is_completed = FALSE,
                      !.completion_percentage = ChapterProgress(next_chapter, total)]

AdvanceUpdate(sess, next_chapter, is_ending, total) ==
    IF is_ending
    THEN [sess EXCEPT !.current_chapter = next_chapter,
                      !.is_completed = TRUE,
                      !.completion_percentage = 100]
    ELSE [sess EXCEPT !.current_chapter = next_chapter,
                      !.completion_percentage = ChapterProgress(next_chapter, total)]

\* StorySessionService.advance_to_next_chapter on committed rows d, with the
\* orchestrator's answer gen, whose text is GeneratedText(n).  Returns the rows it
\* leaves committed, what it returns, and whether it ran the orchestrator.
advance_to_next_chapter(d, sid, gen, n) ==
    LET sess == d.sessions[sid]
        total == d.stories[sess.story_id].total_chapters
        next_chapter == sess.current_chapter + 1
        is_ending == next_chapter >= total
        withChapter == [d EXCEPT !.chapters =
            Append(@, [story_id |-> sess.story_id, chapter_number |-> next_chapter,
                       content |-> GeneratedText(n)])]
        makeChoices == gen.nchoices > 0 /\ ~is_ending
        tx == IF makeChoices
              THEN create_story_choices(d, withChapter, sess.story_id, next_chapter,
                                        gen.nchoices, gen.choice_question)
              ELSE [committed |-> d, pending |-> withChapter]
        new_choices == IF makeChoices
                       THEN OptionsOf(tx.pending.choices, sess.story_id, next_chapter, 1)
                       ELSE 0
    IN IF sess.current_chapter >= total
       THEN [db |-> [d EXCEPT !.sessions[sid].is_completed = TRUE,
                              !.sessions[sid].completion_percentage = 100],
             ret |-> Result(TRUE, FALSE, TRUE, 0),
             invoked |-> FALSE]
       ELSE IF ~gen.success
       THEN [db |-> d,
             ret |-> Failure(TRUE, "Failed to generate next chapter content"),
             invoked |-> TRUE]
       ELSE [db |-> [tx.pending EXCEPT !.sessions[sid] =
                        AdvanceUpdate(tx.pending.sessions[sid], next_chapter, is_ending, total)],
             ret |-> Result(TRUE, FALSE, is_ending, new_choices),
             invoked |-> TRUE]

\* the error dict of generate_personalized_story
GenerationFailure == CHOOSE g \in GenerationResults : ~g.success

\* StorySessionService.advance_to_next_chapter called on its own, for
\* session sid, the orchestrator answering gen when it is run
AdvanceToNextChapterOf(sid, gen) ==
    LET out == advance_to_next_chapter(db, sid, gen, Len(db.chapters))
    IN /\ Len(out.db.chapters) <= MaxChapters
       /\ ~out.invoked => gen = GenerationFailure
       /\ db' = out.db
       /\ UNCHANGED <<workers, safety, context, stream, wfvars>>

AdvanceToNextChapter ==
    \E sid \in DOMAIN db.sessions, gen \in GenerationResults :
       AdvanceToNextChapterOf(sid, gen)

\* the choice record committed by POST /sessions/{id}/choices before it
\* advances; ChoiceSelectionRequest.option_index defaults to 0
Recorded(d, sid, cid) == [d EXCEPT !.sessions[sid] = add_choice(@, cid, 0)]

\* POST /sessions/{id}/choices: append the choice record, commit it, then
\* advance_to_next_chapter; a failed advance becomes HTTP 400
ChoiceEndpointOf(sid, cid, gen) ==
    LET out == advance_to_next_chapter(Recorded(db, sid, cid), sid, gen, Len(db.chapters))
    IN /\ Len(out.db.chapters) <= MaxChapters
       /\ ~out.invoked => gen = GenerationFailure
       /\ db' = out.db
       /\ UNCHANGED <<workers, safety, context, stream, wfvars>>

ChoiceEndpoint ==
    \E sid \in DOMAIN db.sessions, cid \in RequestChoiceIds,
       gen \in GenerationResults :
       ChoiceEndpointOf(sid, cid, gen)

\* the branch of (choice_id, option_index): 0 when there is none, else the
\* row .first() returns
BranchOf(d, choice_id, option_index) ==
    LET hits == { b \in DOMAIN d.branches :
                    /\ d.branches[b].choice_id = choice_id
                    /\ d.branches[b].choice_option_index = option_index }
    IN IF hits = {} THEN 0 ELSE CHOOSE b \in hits : \A c \in hits : b <= c

\* StoryService.generate_branch_content for a branch without content.
\* Returns committed and pending rows, the text returned (NoText for None or
\* ""), and whether the orchestrator ran and failed.
generate_branch_content(committed, pending, bid, sid, gen, n) ==
    LET branch == pending.branches[bid]
        choice == pending.choices[branch.choice_id]
        story_id == pending.sessions[sid].story_id
        target == IF branch.leads_to_chapter # 0 THEN branch.leads_to_chapter
                  ELSE choice.chapter_number + 1
        withContent == [pending EXCEPT !.branches[bid].content = GeneratedText(n)]
        existing == \E i \in DOMAIN withContent.chapters :
                        /\ withContent.chapters[i].story_id = story_id
                        /\ withContent.chapters[i].chapter_number = target
        withChapter == IF existing THEN withContent
                       ELSE [withContent EXCEPT !.chapters =
                               Append(@, [story_id |-> story_id, chapter_number |-> target,
                                          content |-> GeneratedText(n)])]
        tx == IF ~existing /\ gen.nchoices > 0 /\ ~branch.is_ending
              THEN create_story_choices(committed, withChapter, story_id, target,
                                        gen.nchoices, gen.choice_question)
              ELSE [committed |-> committed, pending |-> withChapter]
    IN IF branch.choice_option_index >= choice.n_options
       THEN [committed |-> committed, pending |-> pending, content |-> NoText,
             invoked |-> FALSE, failed |-> FALSE]
       ELSE IF ~gen.success
       THEN [committed |-> committed, pending |-> pending, content |-> NoText,
             invoked |-> TRUE, failed |-> TRUE]
       ELSE [committed |-> tx.pending, pending |-> tx.pending,
             content |-> tx.pending.branches[bid].content,
             invoked |-> TRUE, failed |-> FALSE]

\* every branch is taken for one without content
BranchIsEmpty_always(branch) == TRUE

\* "if not branch.content" of make_story_choice
BranchIsEmpty(branch) == branch.content = NoText

ChoiceUpdate_pointer_only(sess, branch) ==
    IF branch.leads_to_chapter # 0
    THEN [sess EXCEPT !.current_chapter = branch.leads_to_chapter]
    ELSE sess

\* make_story_choice, "Update session progress"
ChoiceUpdate(sess, branch) ==
    LET moved == IF branch.leads_to_chapter # 0
                 THEN [sess EXCEPT !.current_chapter = branch.leads_to_chapter]
                 ELSE sess
    IN IF branch.is_ending
       THEN [moved EXCEPT !.is_completed = TRUE, !.completion_percentage = 100]
       ELSE moved

\* StorySessionService.make_story_choice; changes that are pending when it
\* returns without committing are dropped with the request's db session
make_story_choice(d, sid, choice_id, option_index, gen, n) ==
    LET pending == [d EXCEPT !.sessions[sid] =
                       add_choice(@, [kind |-> "int", id |-> choice_id], option_index)]
        bid == BranchOf(pending, choice_id, option_index)
        branch == pending.branches[bid]
        lazy == BranchIsEmpty(branch)
        g == IF lazy THEN generate_branch_content(d, pending, bid, sid, gen, n)
             ELSE [committed |-> d, pending |-> pending, content |-> branch.content,
                   invoked |-> FALSE, failed |-> FALSE]
        done == [g.pending EXCEPT !.sessions[sid] = ChoiceUpdate(@, g.pending.branches[bid])]
        new_choices == IF branch.leads_to_chapter # 0 /\ ~branch.is_ending
                       THEN OptionsOf(done.choices, done.sessions[sid].story_id,
                                      branch.leads_to_chapter, 1)
                       ELSE 0
        Fail(rows, err) ==
            [db |-> rows, ret |-> Failure(FALSE, err), invoked |-> FALSE]
    IN IF choice_id \notin DOMAIN d.choices
       THEN Fail(d, "Choice not found")
       ELSE IF option_index >= d.choices[choice_id].n_options
       THEN Fail(d, "Invalid choice option")
       ELSE IF bid = 0
       THEN Fail(d, "Story branch not found")
       ELSE IF g.content = NoText
       THEN [db |-> g.committed,
             ret |-> Failure(g.failed, "Failed to generate story content"),
             invoked |-> g.invoked]
       ELSE [db |-> done,
             ret |-> Result(TRUE, FALSE, branch.is_ending, new_choices),
             invoked |-> g.invoked]

MakeStoryChoiceOf(sid, choice_id, oi, gen) ==
    LET out == make_story_choice(db, sid, choice_id, oi, gen, Len(db.chapters))
    IN /\ Len(out.db.chapters) <= MaxChapters
       /\ ~out.invoked => gen = GenerationFailure
       /\ db' = out.db
       /\ UNCHANGED <<workers, safety, context, stream, wfvars>>

\* choice ids of a request: the rows there are, and one there is not
MakeStoryChoice ==
    \E sid \in DOMAIN db.sessions, choice_id \in 1..(Len(db.choices) + 1),
       oi \in OptionIndexes, gen \in GenerationResults :
       MakeStoryChoiceOf(sid, choice_id, oi, gen)

(* ------------------------- other session calls ------------------------- *)

\* update_reading_progress: with a current_position the percentage is
\* recomputed from the chapter pointer
UpdateReadingProgress ==
    \E sid \in DOMAIN db.sessions, has_position \in BOOLEAN :
       LET sess == db.sessions[sid]
           total == db.stories[sess.story_id].total_chapters
       IN /\ db' = IF has_position /\ total # 0
                   THEN [db EXCEPT !.sessions[sid].completion_percentage =
                            Min(100, ChapterProgress(sess.current_chapter, total))]
                   ELSE db
          /\ UNCHANGED <<workers, safety, context, stream, wfvars>>

\* bookmark_session: it writes is_bookmarked and last_accessed, which no
\* operation reads and the rows here do not carry
BookmarkSession ==
    \E sid \in DOMAIN db.sessions :
       /\ db' = db
       /\ UNCHANGED <<workers, safety, context, stream, wfvars>>

\* complete_session
CompleteSession ==
    \E sid \in DOMAIN db.sessions :
       /\ db' = [db EXCEPT !.sessions[sid].is_completed = TRUE,
                           !.sessions[sid].completion_percentage = 100]
       /\ UNCHANGED <<workers, safety, context, stream, wfvars>>

NextSession ==
    \/ StartStorySession
    \/ \E w \in Workers : StartQuery(w)
    \/ \E w \in Workers : StartFinish(w)
    \/ AdvanceToNextChapter
    \/ ChoiceEndpoint
    \/ MakeStoryChoice
    \/ UpdateReadingProgress
    \/ BookmarkSession
    \/ CompleteSession

SpecSession == InitSession /\ [][NextSession]_vars

(* ---------------------------- session claims --------------------------- *)

\* C5: for any two advance calls made one after the other on one session
\* (advance_to_next_chapter and make_story_choice in any mix), the
\* completion_percentage after the second is not below the one after the
\* first.
C5_CompletionNeverDecreases ==
    \A sid \in DOMAIN db.sessions :
       LET Calls(d) ==
               { advance_to_next_chapter(d, sid, gen, Len(d.chapters)).db :
                    gen \in GenerationResults }
               \cup { make_story_choice(d, sid, c, oi, gen, Len(d.chapters)).db :
                         c \in DOMAIN d.choices, oi \in OptionIndexes,
                         gen \in GenerationResults }
       IN \A d1 \in Calls(db) : \A d2 \in Calls(d1) :
             d2.sessions[sid].completion_percentage
                >= d1.sessions[sid].completion_percentage

\* C6: no step of any session operation takes a session's is_completed from
\* true back to false.
C6_CompletedIsOneWay ==
    [][\A s \in DOMAIN db.sessions :
          db.sessions[s].is_completed => db'.sessions[s].is_completed]_vars

\* a completed session was advanced afterwards: its percentage has been
\* recomputed and the flag is still set
C6_Witness ==
    \E s \in DOMAIN db.sessions :
       /\ db.sessions[s].is_completed
       /\ db.sessions[s].completion_percentage < 100
       /\ db.sessions[s].current_chapter > 1

C8_AtMostOneActiveSession ==
    \A s \in DOMAIN db.sessions, t \in DOMAIN db.sessions :
       ( /\ db.sessions[s].child_id = db.sessions[t].child_id
         /\ db.sessions[s].story_id = db.sessions[t].story_id
         /\ ~db.sessions[s].is_completed
         /\ ~db.sessions[t].is_completed ) => s = t

\* C9: when two different sessions of one story have both advanced (without
\* a choice jump) to the same chapter number, there is exactly one Chapter
\* row for that (story_id, chapter_number).
C9_OneChapterRowPerNumber ==
    \A s \in DOMAIN db.sessions, t \in DOMAIN db.sessions :
       ( /\ s # t
         /\ db.sessions[s].story_id = db.sessions[t].story_id
         /\ db.sessions[s].current_chapter = db.sessions[t].current_chapter
         /\ db.sessions[s].current_chapter > 1
         /\ db.sessions[s].choices_made = <<>>
         /\ db.sessions[t].choices_made = <<>> )
       => Cardinality({ i \in DOMAIN db.chapters :
                          /\ db.chapters[i].story_id = db.sessions[s].story_id
                          /\ db.chapters[i].chapter_number = db.sessions[s].current_chapter })
            = 1

\* C10: an advance in which the orchestrator fails (through the choices
\* endpoint, or make_story_choice) reports failure and leaves every row as
\* it was: the session's pointer, choice log, percentage and flag, and the
\* Chapter, Choice and Branch rows.
C10_FailedAdvanceChangesNothing ==
    [][\A sid \in DOMAIN db.sessions :
          /\ \A cid \in RequestChoiceIds :
                LET out == advance_to_next_chapter(Recorded(db, sid, cid), sid,
                                                   GenerationFailure, Len(db.chapters))
                IN (ChoiceEndpointOf(sid, cid, GenerationFailure) /\ out.invoked)
                      => (~out.ret.success /\ db' = db)
          /\ \A c \in DOMAIN db.choices, oi \in OptionIndexes :
                LET out == make_story_choice(db, sid, c, oi, GenerationFailure,
                                             Len(db.chapters))
                IN (MakeStoryChoiceOf(sid, c, oi, GenerationFailure) /\ out.invoked)
                      => (~out.ret.success /\ db' = db)
      ]_vars

\* C11: every session that advance_to_next_chapter has moved to chapter n
\* (its pointer is above 1 and it never took a choice) has a committed
\* Chapter row with its story_id and chapter_number = n.
C11_PointerHasChapterRow ==
    \A s \in DOMAIN db.sessions :
       (db.sessions[s].current_chapter > 1 /\ db.sessions[s].choices_made = <<>>)
       => \E i \in DOMAIN db.chapters :
             /\ db.chapters[i].story_id = db.sessions[s].story_id
             /\ db.chapters[i].chapter_number = db.sessions[s].current_chapter

\* C12: a successful advance to chapter n of a story with T chapters, by
\* advance_to_next_chapter or by make_story_choice, leaves the session
\* completed at 100 percent when the branch taken is an ending or n >= T,
\* and otherwise not completed with completion_percentage =
\* floor((n - 1) * 100 / T).
C12_CompletionAfterAdvance ==
    \A sid \in DOMAIN db.sessions :
       LET T == db.stories[db.sessions[sid].story_id].total_chapters
           Expected(after, ending) ==
               IF ending \/ after.current_chapter >= T
               THEN after.is_completed /\ after.completion_percentage = 100
               ELSE /\ ~after.is_completed
                    /\ after.completion_percentage
                          = ((after.current_chapter - 1) * 100) \div T
       IN /\ \A gen \in GenerationResults :
                LET out == advance_to_next_chapter(db, sid, gen, Len(db.chapters))
                IN (out.ret.success /\ out.invoked)
                      => Expected(out.db.sessions[sid], FALSE)
          /\ \A c \in DOMAIN db.choices, oi \in OptionIndexes, gen \in GenerationResults :
                LET out == make_story_choice(db, sid, c, oi, gen, Len(db.chapters))
                IN out.ret.success
                      => Expected(out.db.sessions[sid],
                                  db.branches[BranchOf(db, c, oi)].is_ending)

\* C13: a successful make_story_choice through a branch with is_ending =
\* True and leads_to_chapter = k leaves the session at current_chapter = k,
\* completed, at 100 percent, and returns is_ending = True with an empty
\* new_choices list.
C13_EndingBranchCompletes ==
    \A sid \in DOMAIN db.sessions :
       \A c \in DOMAIN db.choices, oi \in OptionIndexes, gen \in GenerationResults :
          LET out == make_story_choice(db, sid, c, oi, gen, Len(db.chapters))
              branch == db.branches[BranchOf(db, c, oi)]
              after == out.db.sessions[sid]
          IN (out.ret.success /\ branch.is_ending /\ branch.leads_to_chapter # 0)
                => /\ after.current_chapter = branch.leads_to_chapter
                   /\ after.is_completed
                   /\ after.completion_percentage = 100
                   /\ out.ret.is_ending
                   /\ out.ret.new_choices = 0

\* a session has taken the ending branch of the catalogue: it stands on the
\* branch's chapter, completed, with the choice in its log
C13_Witness ==
    \E s \in DOMAIN db.sessions, b \in DOMAIN db.branches :
       /\ db.branches[b].is_ending
       /\ db.sessions[s].current_chapter = db.branches[b].leads_to_chapter
       /\ db.sessions[s].is_completed
       /\ db.sessions[s].choices_made
             = <<[choice_id |-> [kind |-> "int", id |-> db.branches[b].choice_id],
                  option_index |-> db.branches[b].choice_option_index]>>

\* C14: make_story_choice with an option index outside the range of the
\* Choice's options, too large or negative, returns the invalid-choice error
\* and leaves the session's choice log, pointer and completion as they were.
C14_OutOfRangeOptionRejected ==
    \A sid \in DOMAIN db.sessions :
       \A c \in DOMAIN db.choices, oi \in OptionIndexes, gen \in GenerationResults :
          LET out == make_story_choice(db, sid, c, oi, gen, Len(db.chapters))
          IN (oi < 0 \/ oi >= db.choices[c].n_options)
                => /\ ~out.ret.success
                   /\ out.ret.error = "Invalid choice option"
                   /\ out.db.sessions[sid] = db.sessions[sid]

\* C15: every request to the choices endpoint, whether its choice id is a
\* Choice id or a pseudo-choice, leaves the session's committed choices_made
\* equal to the log before the request with exactly one record appended.
C15_EveryRequestAppendsOneRecord ==
    \A sid \in DOMAIN db.sessions :
       \A cid \in RequestChoiceIds, gen \in GenerationResults :
          LET out == advance_to_next_chapter(Recorded(db, sid, cid), sid, gen,
                                             Len(db.chapters))
          IN out.db.sessions[sid].choices_made
                = Append(db.sessions[sid].choices_made,
                         [choice_id |-> cid, option_index |-> 0])

\* C16: when the generator yields no usable story text (the run failed, or
\* its text is empty), POST /generate answers with an error, and no answer
\* carries the filler sentence in place of generated content.
C16_NoFillerContent ==
    response # NoResponse =>
       /\ response.content # "Once upon a time..."
       /\ (~result.success \/ result.story_content.words = 0)
             => response.status = 500

(* ======================= content safety workflow ======================= *)

\* Scores of this workflow are floats in [0, 1]; sub-scores are written in
\* hundredths and the weighted overall score in thousandths.
REVIEW_BELOW == 800

\* the words of a text that the analyses look for
Terms == {"monster", "death", "adventure", "solve", "learn"}

\* average number of words per sentence of a text
SentenceLengths == {8, 25}

ChildAges == {7, 9, 13}

\* what the moderation API does for the text
ModerationOutcomes == {"clean", "flagged", "error"}

\* what the cultural-sensitivity model call does: a JSON reply, a reply that
\* is not JSON, or an exception
CulturalOutcomes ==
    { [kind |-> "json", has_score |-> TRUE, score |-> 100, issues |-> 0,
       recommendations |-> {}],
      [kind |-> "json", has_score |-> FALSE, score |-> 0, issues |-> 1,
       recommendations |-> {"Use more inclusive names"}],
      [kind |-> "not_json", has_score |-> FALSE, score |-> 0, issues |-> 0,
       recommendations |-> {}],
      [kind |-> "exception", has_score |-> FALSE, score |-> 0, issues |-> 0,
       recommendations |-> {}] }

\* age_guidelines.get(child_age, age_guidelines[9]), restricted to Terms
age_guidelines(child_age) ==
    IF child_age = 7
    THEN [avoid |-> {"monster", "death"}, prefer |-> {"adventure"},
          max_complexity |-> 2]
    ELSE [avoid |-> {"death"}, prefer |-> {"adventure"}, max_complexity |-> 4]

\* ContentSafetyState as check_story_safety builds it, with the outcomes of
\* the two external calls of this run
InitialSafetyState(terms, len, age, mod, cul) ==
    [node |-> "moderation_check",
     content |-> [terms |-> terms, avg_sentence_length |-> len],
     child_age |-> age,
     moderation_call |-> mod,
     cultural_call |-> cul,
     moderation_result |-> [flagged |-> FALSE, error |-> FALSE],
     age_appropriateness_score |-> 0,
     cultural_sensitivity_score |-> 0,
     educational_value_score |-> 0,
     safety_issues |-> << >>,
     recommendations |-> {},
     overall_safety_score |-> 0,
     is_approved |-> FALSE,
     needs_review |-> FALSE]

Issue(type, severity) == [type |-> type, severity |-> severity]

Repeat(x, n) == [i \in 1..n |-> x]

\* run_openai_moderation: the API's verdict, or flagged False with the
\* error text when the call raises
run_openai_moderation(st) ==
    [moderation_result |->
        [flagged |-> (st.moderation_call = "flagged"),
         error |-> (st.moderation_call = "error")]]

\* analyze_age_appropriateness: 0.3 off per avoid term found, 0.1 off for
\* long sentences, 0.1 on for any preferred theme, clamped to [0, 1]
analyze_age_appropriateness(st) ==
    LET guidelines == age_guidelines(st.child_age)
        found == Cardinality(guidelines.avoid \cap st.content.terms)
        complex == st.content.avg_sentence_length > guidelines.max_complexity * 5
        positive == (guidelines.prefer \cap st.content.terms) # {}
        score == 100 - 30 * found - (IF complex THEN 10 ELSE 0)
                     + (IF positive THEN 10 ELSE 0)
    IN [age_appropriateness_score |-> Max(0, Min(100, score)),
        safety_issues |->
            Repeat(Issue("inappropriate_content", "high"), found)
            \o (IF complex THEN << Issue("complexity", "medium") >> ELSE << >>)]

\* analyze_cultural_sensitivity: the reply's score (0.8 when it has none),
\* issues and recommendations; 0.8 for a reply that is not JSON; 0.7 when
\* the call raises
analyze_cultural_sensitivity(st) ==
    LET reply == st.cultural_call
    IN CASE reply.kind = "json" ->
              [cultural_sensitivity_score |->
                   IF reply.has_score THEN reply.score ELSE 80,
               safety_issues |-> Repeat(Issue("cultural", "medium"), reply.issues),
               recommendations |-> reply.recommendations]
         [] reply.kind = "not_json" ->
              [cultural_sensitivity_score |-> 80,
               safety_issues |-> << >>,
               recommendations |->
                   {"Manual cultural sensitivity review recommended"}]
         [] OTHER ->
              [cultural_sensitivity_score |-> 70,
               safety_issues |-> << Issue("cultural", "low") >>,
               recommendations |->
                   {"Manual review recommended due to analysis failure"}]

\* analyze_educational_value: 0.5 plus 0.1 per category with a keyword in
\* the text ("solve": problem_solving, "learn": vocabulary)
analyze_educational_value(st) ==
    LET educational_score ==
            Min(100, 50 + 10 * Cardinality({"solve", "learn"} \cap st.content.terms))
    IN [educational_value_score |-> educational_score,
        recommendations |->
            IF educational_score < 70
            THEN {"Consider adding more educational elements",
                  "Include vocabulary building opportunities",
                  "Add problem-solving scenarios"}
            ELSE {}]

\* the stable sort by severity: high, medium, then everything else
SortBySeverity(issues) ==
    SelectSeq(issues, LAMBDA x : x.severity = "high")
    \o SelectSeq(issues, LAMBDA x : x.severity = "medium")
    \o SelectSeq(issues, LAMBDA x : x.severity \notin {"high", "medium"})

\* aggregate_safety_issues: the issues in the state, sorted
aggregate_safety_issues(st) ==
    [safety_issues |-> SortBySeverity(st.safety_issues)]

\* the sub-score the final assessment uses for the moderation check
moderation_score(st) == IF st.moderation_result.flagged THEN 0 ELSE 100

\* the two verdicts with one threshold for both
FinalVerdict_one_threshold(overall_score, thr) ==
    [is_approved |-> overall_score >= thr * 100,
     needs_review |-> overall_score < thr * 100]

\* is_approved and needs_review of calculate_overall_safety
FinalVerdict(overall_score, thr) ==
    [is_approved |-> overall_score >= thr * 100,
     needs_review |-> overall_score < REVIEW_BELOW]

\* calculate_overall_safety: the weighted score, the two verdicts, and the
\* recommendations of the state plus those of the moderation and the score
calculate_overall_safety(st, thr) ==
    LET overall_score == 4 * moderation_score(st)
                         + 3 * st.age_appropriateness_score
                         + 2 * st.cultural_sensitivity_score
                         + 1 * st.educational_value_score
        verdict == FinalVerdict(overall_score, thr)
    IN [overall_safety_score |-> overall_score,
        is_approved |-> verdict.is_approved,
        needs_review |-> verdict.needs_review,
        recommendations |->
            (IF st.moderation_result.flagged
             THEN {"Address violence content flagged by moderation"} ELSE {})
            \cup st.recommendations
            \cup (IF overall_score < 500
                  THEN {"Content requires significant revision before approval"}
                  ELSE IF overall_score < 700
                  THEN {"Content needs improvement in multiple areas"}
                  ELSE {})]

\* A node's return value overwrites the keys it names in the state.
Update(st, ret, next) ==
    [k \in DOMAIN st |->
        IF k = "node" THEN next
        ELSE IF k \in DOMAIN ret THEN ret[k] ELSE st[k]]

\* node moderation_check
ModerationCheck ==
    /\ safety.node = "moderation_check"
    /\ safety' = Update(safety, run_openai_moderation(safety), "age_analysis")
    /\ UNCHANGED <<wfvars, svars, context, stream>>

\* node age_analysis
AgeAnalysis ==
    /\ safety.node = "age_analysis"
    /\ safety' = Update(safety, analyze_age_appropriateness(safety),
                        "cultural_analysis")
    /\ UNCHANGED <<wfvars, svars, context, stream>>

\* node cultural_analysis
CulturalAnalysis ==
    /\ safety.node = "cultural_analysis"
    /\ safety' = Update(safety, analyze_cultural_sensitivity(safety),
                        "educational_analysis")
    /\ UNCHANGED <<wfvars, svars, context, stream>>

\* node educational_analysis
EducationalAnalysis ==
    /\ safety.node = "educational_analysis"
    /\ safety' = Update(safety, analyze_educational_value(safety),
                        "aggregate_issues")
    /\ UNCHANGED <<wfvars, svars, context, stream>>

\* node aggregate_issues
AggregateIssues ==
    /\ safety.node = "aggregate_issues"
    /\ safety' = Update(safety, aggregate_safety_issues(safety),
                        "final_assessment")
    /\ UNCHANGED <<wfvars, svars, context, stream>>

\* node final_assessment
FinalAssessment ==
    /\ safety.node = "final_assessment"
    /\ safety' = Update(safety, calculate_overall_safety(safety, threshold), "END")
    /\ UNCHANGED <<wfvars, svars, context, stream>>

InitSafety ==
    /\ safety \in { InitialSafetyState(t, l, a, m, c) :
                       t \in SUBSET Terms, l \in SentenceLengths,
                       a \in ChildAges, m \in ModerationOutcomes,
                       c \in CulturalOutcomes }
    /\ threshold \in Thresholds
    /\ node = "generate_content"
    /\ state = InitialState(CHOOSE p \in ChildPreferences : p.age = 9)
    /\ result = NoResult
    /\ response = NoResponse
    /\ context = NoContext
    /\ stream = NoStream
    /\ SessionsIdle

NextSafety ==
    \/ ModerationCheck
    \/ AgeAnalysis
    \/ CulturalAnalysis
    \/ EducationalAnalysis
    \/ AggregateIssues
    \/ FinalAssessment

SpecSafety == InitSafety /\ [][NextSafety]_vars

(* ------------------------ content safety claims ------------------------ *)

\* C17: in every output of the final assessment, is_approved is true exactly
\* when overall_safety_score >= CONTENT_SAFETY_THRESHOLD and needs_review is
\* true exactly when overall_safety_score < 0.8; with the default threshold
\* 0.5 every score in [0.5, 0.8) is both approved and flagged for review.
C17_ApprovalAndReviewThresholds ==
    safety.node = "END" =>
       /\ safety.is_approved <=> safety.overall_safety_score >= threshold * 100
       /\ safety.needs_review <=> safety.overall_safety_score < REVIEW_BELOW
       /\ (/\ threshold = CONTENT_SAFETY_THRESHOLD
           /\ safety.overall_safety_score >= 500
           /\ safety.overall_safety_score < 800)
          => (safety.is_approved /\ safety.needs_review)

C17_Witness ==
    /\ safety.node = "END"
    /\ threshold = CONTENT_SAFETY_THRESHOLD
    /\ safety.overall_safety_score >= 500
    /\ safety.overall_safety_score < 800
    /\ safety.is_approved
    /\ safety.needs_review

\* C18: for content with at least one avoid-term of the child's age band,
\* the result of the safety workflow has age_appropriateness_score <= 0.7 and
\* contains an issue of type "inappropriate_content", whatever else the text
\* contains and after all later nodes have run.
C18_AvoidTermScoredAndReported ==
    (/\ safety.node = "END"
     /\ (age_guidelines(safety.child_age).avoid \cap safety.content.terms) # {})
    => /\ safety.age_appropriateness_score <= 70
       /\ \E i \in DOMAIN safety.safety_issues :
             safety.safety_issues[i].type = "inappropriate_content"

\* C19: when the moderation call or the cultural-sensitivity call of a run
\* fails, the run still completes, the failed sub-check contributes a
\* sub-score between 0.7 and 0.8, and the result carries a manual-review
\* recommendation.
C19_FailedSubCheckIsNeutralAndFlagged ==
    LET manual == {"Manual review recommended due to analysis failure",
                   "Manual cultural sensitivity review recommended"}
    IN safety.node = "END" =>
          /\ safety.moderation_call = "error"
                => /\ moderation_score(safety) \in 70..80
                   /\ (safety.recommendations \cap manual) # {}
          /\ safety.cultural_call.kind = "exception"
                => /\ safety.cultural_sensitivity_score \in 70..80
                   /\ (safety.recommendations \cap manual) # {}

(* ------------------------- reading time claim -------------------------- *)

\* the smallest integer that is at least a / b, for b > 0
Ceil(a, b) == (a + b - 1) \div b

\* C20: for every word count and every (reading level, age) the reading
\* metrics give estimated_reading_time = max(1, ceil(word_count / wpm)), with
\* wpm the table entry of the pair (120 when it has none), an integer >= 1.
C20_ReadingTimeIsCeiling ==
    node = "END" =>
       /\ state.estimated_reading_time >= 1
       /\ state.estimated_reading_time =
             Max(1, Ceil(state.story_content.words,
                         IF state.child_preferences.age_is_int
                         THEN wpm_map(state.child_preferences.reading_level,
                                      state.child_preferences.age)
                         ELSE DEFAULT_WPM))

(* ----------------------- workflow routing claims ----------------------- *)

\* C23: within one generation attempt enhance_content runs at most once: the
\* safety_check that follows an enhancement routes only to finalize or to
\* regenerate, never to enhance again.
C23_EnhanceAtMostOnce ==
    node = "enhance_content" =>
       \A st \in enhance_content_if_needed(state) :
          LET out == check_content_safety(st, threshold)
              checked == [st EXCEPT !.safety_score = out.safety_score,
                                    !.content_approved = out.content_approved,
                                    !.content_issues = out.content_issues]
          IN should_regenerate_content(checked) # "enhance"

\* C24: calculate_metrics is entered only from a safety_check whose verdict
\* was approved, enhance_content always goes to safety_check, and every run
\* that reaches END has content_approved = true.
C24_MetricsOnlyAfterApproval ==
    [][/\ (node' = "calculate_metrics" /\ node # "calculate_metrics")
             => (node = "safety_check" /\ state'.content_approved)
       /\ (node = "enhance_content" /\ node' # node) => node' = "safety_check"
       /\ node' = "END" => state'.content_approved]_vars

\* an approved run went through calculate_metrics and reached END
C24_Witness ==
    /\ node = "END"
    /\ state.content_approved
    /\ state.story_content.formatted

\* C30: after any execution of check_content_safety the safety_score is one
\* of 1.0, 0.8, 0.7 or 0.5, so the "regenerate" transition is never taken.
C30_RegenerateNeverTaken ==
    [][node = "safety_check" =>
          /\ state'.safety_score \in {10, 8, 7, 5}
          /\ node' # "generate_content"]_vars

\* a safety check rejected the content with the lowest score there is
C30_Witness ==
    /\ node = "enhance_content"
    /\ ~state.content_approved
    /\ state.safety_score = 5

(* ------------------------ branch and range claims ---------------------- *)

\* C25: once a StoryBranch's content is non-empty no operation changes or
\* clears it, and every traversal of that branch uses the stored content
\* without invoking the orchestrator.
C25_BranchContentSetOnce ==
    /\ [](\A sid \in DOMAIN db.sessions, c \in DOMAIN db.choices,
             oi \in OptionIndexes, gen \in GenerationResults :
             LET out == make_story_choice(db, sid, c, oi, gen, Len(db.chapters))
                 bid == BranchOf(db, c, oi)
             IN (bid # 0 /\ db.branches[bid].content # NoText)
                   => /\ ~out.invoked
                      /\ out.db.branches[bid].content = db.branches[bid].content)
    /\ [][\A b \in DOMAIN db.branches :
             db.branches[b].content # NoText
                => /\ b \in DOMAIN db'.branches
                   /\ db'.branches[b].content = db.branches[b].content]_vars

\* a session has traversed a branch that had content and is not an ending:
\* it stands on the branch's chapter with the choice in its log
C25_Witness ==
    \E s \in DOMAIN db.sessions, b \in DOMAIN db.branches :
       /\ ~db.branches[b].is_ending
       /\ db.branches[b].content # NoText
       /\ db.sessions[s].current_chapter = db.branches[b].leads_to_chapter
       /\ db.sessions[s].choices_made
             = <<[choice_id |-> [kind |-> "int", id |-> db.branches[b].choice_id],
                  option_index |-> db.branches[b].choice_option_index]>>

\* C29: in every state of a session is_completed = true implies
\* completion_percentage = 100, and completion_percentage is within 0..100.
C29_CompletedMeansFull ==
    \A s \in DOMAIN db.sessions :
       /\ db.sessions[s].is_completed => db.sessions[s].completion_percentage = 100
       /\ db.sessions[s].completion_percentage \in 0..100

(* ============================ context builder ========================== *)

\* records of a choice log of one request
MaxLog == 2

\* previous chapters of one request
MaxPrevious == 2

\* summary[:400]
SUMMARY_CAP == 400

\* "if len(words) <= 100"
SUMMARY_WORDS == 100

\* words[:60] and words[-40:]
HEAD_WORDS == 60
TAIL_WORDS == 40

\* A chapter text, by what split() and len() see of it: its number of words,
\* the length of a word and the length of the white space between two words.
\* A text stored by a StoryChapter row may also be empty.
Texts ==
    [nwords : {0, 50, 100, 101, 300}, wordlen : {2, 7}, gap : {1}]
    \cup [nwords : {101}, wordlen : {2}, gap : {3}]

\* len(text)
Chars(t) == IF t.nwords = 0 THEN 0
            ELSE t.nwords * t.wordlen + (t.nwords - 1) * t.gap

\* create_story_summary without the final slice
create_story_summary_uncapped(chapter_content) ==
    IF chapter_content.nwords <= SUMMARY_WORDS
    THEN [head |-> chapter_content.nwords, tail |-> 0,
          chars |-> Chars(chapter_content)]
    ELSE [head |-> HEAD_WORDS, tail |-> TAIL_WORDS,
          chars |-> (HEAD_WORDS * chapter_content.wordlen + HEAD_WORDS - 1)
                    + 4
                    + (TAIL_WORDS * chapter_content.wordlen + TAIL_WORDS - 1)]

\* create_story_summary: the words of the chapter it takes (all of them, or
\* the first 60 and the last 40 joined by single spaces around "... ") and
\* the length of the result after summary[:400]
create_story_summary(chapter_content) ==
    IF chapter_content.nwords <= SUMMARY_WORDS
    THEN [head |-> chapter_content.nwords, tail |-> 0,
          chars |-> Min(SUMMARY_CAP, Chars(chapter_content))]
    ELSE [head |-> HEAD_WORDS, tail |-> TAIL_WORDS,
          chars |-> Min(SUMMARY_CAP,
                        (HEAD_WORDS * chapter_content.wordlen + HEAD_WORDS - 1)
                        + 4
                        + (TAIL_WORDS * chapter_content.wordlen + TAIL_WORDS - 1))]

\* The "STORY CONTEXT" part of create_story_prompt_for_structured_output:
\* one "Chapter i: summary" line per previous chapter, none for an empty list
ChapterLines(previous_chapters) ==
    [i \in DOMAIN previous_chapters |-> create_story_summary(previous_chapters[i])]

\* the Choice rows a log can refer to: their question and option texts
ChoiceRows ==
    << [question |-> "q1", texts |-> <<"left", "right">>],
       [question |-> "q2", texts |-> <<"">>] >>

\* the records story_session.choices_made can hold: a custom input with its
\* text, a stored choice by its id and option, and a special id without text
LogRecords ==
    { [choice_id |-> [kind |-> "custom-choice", id |-> 0], option_index |-> 0,
       has_chosen_option |-> TRUE, chosen_option |-> "a wish"],
      [choice_id |-> [kind |-> "int", id |-> 1], option_index |-> 1,
       has_chosen_option |-> FALSE, chosen_option |-> ""],
      [choice_id |-> [kind |-> "int", id |-> 1], option_index |-> -1,
       has_chosen_option |-> FALSE, chosen_option |-> ""],
      [choice_id |-> [kind |-> "int", id |-> 2], option_index |-> 0,
       has_chosen_option |-> FALSE, chosen_option |-> ""],
      [choice_id |-> [kind |-> "int", id |-> 3], option_index |-> 0,
       has_chosen_option |-> FALSE, chosen_option |-> ""],
      [choice_id |-> [kind |-> "continue", id |-> 0], option_index |-> 0,
       has_chosen_option |-> FALSE, chosen_option |-> ""] }

Logs == UNION { [1..n -> LogRecords] : n \in 0..MaxLog }

\* choices_data[option_index] of Python: a negative index counts from the end
OptionText(texts, option_index) ==
    IF option_index >= 0 THEN texts[option_index + 1]
    ELSE texts[Len(texts) + option_index + 1]

\* the entry built from one record of the log, or none
ChoiceEntry(rec) ==
    IF rec.choice_id.kind = "custom-choice" /\ rec.has_chosen_option
    THEN << [question |-> "Custom user input", chosen_option |-> rec.chosen_option] >>
    ELSE IF rec.choice_id.kind = "int"
    THEN IF /\ rec.choice_id.id \in DOMAIN ChoiceRows
            /\ rec.option_index < Len(ChoiceRows[rec.choice_id.id].texts)
            /\ -rec.option_index <= Len(ChoiceRows[rec.choice_id.id].texts)
            /\ OptionText(ChoiceRows[rec.choice_id.id].texts, rec.option_index) # ""
         THEN << [question |-> ChoiceRows[rec.choice_id.id].question,
                  chosen_option |->
                      OptionText(ChoiceRows[rec.choice_id.id].texts,
                                 rec.option_index)] >>
         ELSE << >>
    ELSE << >>

\* previous_choices built from every record of the log
previous_choices_all(has_session, choices_made) ==
    IF ~has_session \/ choices_made = << >> THEN << >>
    ELSE IF Len(choices_made) = 1 THEN ChoiceEntry(choices_made[1])
    ELSE ChoiceEntry(choices_made[1]) \o ChoiceEntry(choices_made[Len(choices_made)])

\* previous_choices of generate_personalized_story
previous_choices(has_session, choices_made) ==
    IF ~has_session \/ choices_made = << >> THEN << >>
    ELSE ChoiceEntry(choices_made[Len(choices_made)])

\* previous_choices of generate_personalized_story_stream
previous_choices_stream(has_session, choices_made) ==
    IF has_session /\ Len(choices_made) > 0
    THEN ChoiceEntry(choices_made[Len(choices_made)])
    ELSE << >>

\* previous_chapters of both variants: the stripped content of the chapter
\* rows before the requested one, without the empty ones
previous_chapters(has_session, rows) ==
    IF has_session THEN SelectSeq(rows, LAMBDA t : t.nwords > 0) ELSE << >>

\* A request for a chapter: whether it comes with a session, the content of
\* the StoryChapter rows before that chapter, and the session's choice log
Requests ==
    [variant : {"invoke", "stream"},
     has_session : BOOLEAN,
     rows : UNION { [1..n -> Texts] : n \in 0..MaxPrevious },
     choices_made : Logs]

\* the head of both variants: the initial_state they hand to the workflow
PrepareInitialState ==
    /\ context.phase = "request"
    /\ context' =
          [context EXCEPT
              !.phase = "prepared",
              !.previous_chapters =
                  previous_chapters(context.request.has_session, context.request.rows),
              !.previous_choices =
                  IF context.request.variant = "invoke"
                  THEN previous_choices(context.request.has_session,
                                        context.request.choices_made)
                  ELSE previous_choices_stream(context.request.has_session,
                                               context.request.choices_made)]
    /\ UNCHANGED <<wfvars, svars, safety, stream>>

\* generate_story_content builds the prompt from the state
CreatePrompt ==
    /\ context.phase = "prepared"
    /\ context' = [context EXCEPT
                      !.phase = "prompted",
                      !.chapter_lines = ChapterLines(context.previous_chapters),
                      !.choice_lines = context.previous_choices]
    /\ UNCHANGED <<wfvars, svars, safety, stream>>

InitContext ==
    /\ context \in { [phase |-> "request", request |-> r,
                      previous_chapters |-> << >>, previous_choices |-> << >>,
                      chapter_lines |-> << >>, choice_lines |-> << >>] :
                     r \in Requests }
    /\ node = "generate_content"
    /\ state = InitialState(CHOOSE p \in ChildPreferences : p.age = 9)
    /\ threshold = CONTENT_SAFETY_THRESHOLD
    /\ result = NoResult
    /\ response = NoResponse
    /\ safety = NoSafetyRun
    /\ stream = NoStream
    /\ SessionsIdle

NextContext ==
    \/ PrepareInitialState
    \/ CreatePrompt

SpecContext == InitContext /\ [][NextContext]_vars

(* ------------------------ context builder claims ----------------------- *)

\* C21: for any list of previous chapters of any length, each chapter
\* contributes exactly one summary of at most 400 characters to the prompt,
\* and a chapter of more than 100 words is reduced to its first 60 and last
\* 40 words before the 400-character cap.
C21_OneBoundedSummaryPerChapter ==
    context.phase = "prompted" =>
       /\ Len(context.chapter_lines) = Len(context.previous_chapters)
       /\ \A i \in DOMAIN context.chapter_lines :
             /\ context.chapter_lines[i].chars <= 400
             /\ context.previous_chapters[i].nwords > 100
                   => /\ context.chapter_lines[i].head = 60
                      /\ context.chapter_lines[i].tail = 40

\* a prompt with two previous chapters, one of them of more than 100 long
\* words, whose summary the cap has cut
C21_Witness ==
    /\ context.phase = "prompted"
    /\ Len(context.chapter_lines) = 2
    /\ \E i \in DOMAIN context.chapter_lines :
          /\ context.previous_chapters[i].nwords > 100
          /\ Chars(context.previous_chapters[i]) > 2000
          /\ context.chapter_lines[i].chars = 400

\* C22: for a choice log of any length the previous_choices handed to the
\* workflow, by either variant, has at most one entry; the entry is derived
\* from the last record of the log, and no older record changes it.
C22_OnlyLastChoice ==
    context.phase \in {"prepared", "prompted"} =>
       LET log == context.request.choices_made
       IN /\ Len(context.previous_choices) <= 1
          /\ (context.previous_choices # << >>)
                => /\ log # << >>
                   /\ context.previous_choices = ChoiceEntry(log[Len(log)])
          /\ \A other \in Logs :
                (other # << >> /\ log # << >> /\ other[Len(other)] = log[Len(log)])
                   => /\ previous_choices(context.request.has_session, other)
                         = previous_choices(context.request.has_session, log)
                      /\ previous_choices_stream(context.request.has_session, other)
                         = previous_choices_stream(context.request.has_session, log)

\* a log of two records whose older record would give an entry of its own,
\* and the state carries the entry of the last one
C22_Witness ==
    /\ context.phase = "prepared"
    /\ Len(context.request.choices_made) = 2
    /\ ChoiceEntry(context.request.choices_made[1]) # << >>
    /\ ChoiceEntry(context.request.choices_made[1])
          # ChoiceEntry(context.request.choices_made[2])
    /\ Len(context.previous_choices) = 1

(* ============================ streaming variant ======================== *)

\* Supersteps a run of the compiled graph may take before astream_events
\* raises GraphRecursionError (LangGraph's default is 25).
MaxSupersteps == 5

\* final_state = {} of generate_personalized_story_stream, with the defaults
\* of its final_state.get(...) calls
EmptyFinalState ==
    [story_content |-> EmptyContent, choices |-> << >>, choice_question |-> FALSE,
     safety_score |-> 10, content_approved |-> TRUE,
     estimated_reading_time |-> 5, vocabulary_level |-> ""]

\* no 'complete' event has been built
NoPayload == [sent |-> FALSE]

NewStream ==
    [phase |-> "new", events |-> << >>, ran |-> << >>, steps |-> 0,
     final_state |-> EmptyFinalState, complete |-> NoPayload]

\* one more event yielded to the client
Yield(st, evs) == [st EXCEPT !.events = @ \o evs]

\* a terminal event: the generator returns after it
Close(st, ev) == [st EXCEPT !.events = Append(@, ev), !.phase = "closed"]

\* one node of the workflow has run
Ran(st, n) == [st EXCEPT !.ran = Append(@, n), !.steps = @ + 1]

\* The head of the generator: the initial state is built and
\* "workflow started" is yielded, or the preparation raises and the outer
\* except yields the error event.
StreamStart ==
    /\ stream.phase = "new"
    /\ \/ stream' = [Yield(stream, << "workflow:started" >>) EXCEPT !.phase = "running"]
       \/ stream' = Close(stream, "error")
    /\ UNCHANGED <<wfvars, svars, safety, context>>

\* on_chain_start and on_chain_end of node generate_content: started, one
\* content chunk per paragraph of the cleaned text, completed; final_state
\* takes the text, the choices and the choice_question, which only a reply
\* wrapped in JSON provides.  A raising node ends the stream with an error.
StreamGenerateContent ==
    /\ stream.phase = "running"
    /\ node = "generate_content"
    /\ stream.steps < MaxSupersteps
    /\ \/ \E c \in Contents, ch \in ChoiceLists, question \in BOOLEAN :
             /\ state' = [state EXCEPT !.story_content = c, !.choices = ch]
             /\ node' = "safety_check"
             /\ stream' =
                   [Ran(Yield(stream,
                              << "generate_content:started" >>
                              \o (IF c.words > 0 THEN << "content" >> ELSE << >>)
                              \o (IF question THEN << "content" >> ELSE << >>)
                              \o << "generate_content:completed" >>),
                        "generate_content")
                    EXCEPT !.final_state.story_content = c,
                           !.final_state.choices = ch,
                           !.final_state.choice_question = question]
       \/ /\ node' = "failed"
          /\ state' = state
          /\ stream' = Close(Ran(Yield(stream, << "generate_content:started" >>),
                                 "generate_content"),
                             "error")
    /\ UNCHANGED <<threshold, result, response, safety, context, svars>>

\* on_chain_start and on_chain_end of node safety_check.  Between them the
\* conditional edge runs should_regenerate_content as a traced runnable of
\* that name, which the test '"generate_content" in event_name' matches: a
\* started and a completed event of generate_content are yielded for it.
StreamSafetyCheck ==
    /\ stream.phase = "running"
    /\ node = "safety_check"
    /\ stream.steps < MaxSupersteps
    /\ LET out == check_content_safety(state, threshold)
           st2 == [state EXCEPT !.safety_score = out.safety_score,
                                !.content_approved = out.content_approved,
                                !.content_issues = out.content_issues]
       IN /\ state' = st2
          /\ node' = ConditionalEdges[should_regenerate_content(st2)]
          /\ stream' =
                [Ran(Yield(stream,
                           << "safety_check:started",
                              "generate_content:started",
                              "generate_content:completed",
                              "safety_check",
                              "safety_check:completed" >>),
                     "safety_check")
                 EXCEPT !.final_state.safety_score = out.safety_score,
                        !.final_state.content_approved = out.content_approved]
    /\ UNCHANGED <<threshold, result, response, safety, context, svars>>

\* node enhance_content: no branch of the event loop matches its name
StreamEnhanceContent ==
    /\ stream.phase = "running"
    /\ node = "enhance_content"
    /\ stream.steps < MaxSupersteps
    /\ state' \in enhance_content_if_needed(state)
    /\ node' = "safety_check"
    /\ stream' = Ran(stream, "enhance_content")
    /\ UNCHANGED <<threshold, result, response, safety, context, svars>>

\* on_chain_start and on_chain_end of node calculate_metrics
StreamCalculateMetrics ==
    /\ stream.phase = "running"
    /\ node = "calculate_metrics"
    /\ stream.steps < MaxSupersteps
    /\ LET out == calculate_reading_metrics(state)
       IN /\ state' = [state EXCEPT !.story_content = out.story_content,
                                    !.estimated_reading_time = out.estimated_reading_time,
                                    !.vocabulary_level = out.vocabulary_level]
          /\ stream' =
                [Ran(Yield(stream,
                           << "calculate_metrics:started", "metadata",
                              "calculate_metrics:completed" >>),
                     "calculate_metrics")
                 EXCEPT !.final_state.estimated_reading_time = out.estimated_reading_time,
                        !.final_state.vocabulary_level = out.vocabulary_level]
    /\ node' = "END"
    /\ UNCHANGED <<threshold, result, response, safety, context, svars>>

\* the graph did not finish within its supersteps: GraphRecursionError,
\* caught by the inner except
StreamRecursionLimit ==
    /\ stream.phase = "running"
    /\ node \notin {"END", "failed"}
    /\ stream.steps = MaxSupersteps
    /\ stream' = Close(stream, "error")
    /\ node' = "failed"
    /\ UNCHANGED <<state, threshold, result, response, safety, context, svars>>

\* the rows the generator commits after the event loop: a Story, the
\* StoryChapter with final_state's text and, when there are choices and a
\* choice_question, one Choice and one StoryBranch per choice
StreamRows(chapter_number, fs) ==
    [GeneratedStory(chapter_number,
                    IF fs.choice_question THEN Len(fs.choices) ELSE 0)
     EXCEPT !.chapters = << [story_id |-> 1, chapter_number |-> chapter_number,
                             content |-> fs.story_content] >>]

\* the 'complete' event built from final_state and the committed rows
CompletePayload(fs) ==
    [sent |-> TRUE,
     story_content |-> fs.story_content,
     choices |-> IF fs.choice_question
                 THEN SelectSeq(fs.choices, LAMBDA ch : ch.has_text)
                 ELSE << >>,
     safety_score |-> fs.safety_score,
     content_approved |-> fs.content_approved,
     estimated_reading_time |-> fs.estimated_reading_time,
     vocabulary_level |-> fs.vocabulary_level]

\* After the event loop: the rows are added and committed, then the text is
\* validated: without a clean paragraph the error event is yielded,
\* otherwise the complete event.  A failing commit goes to the inner except.
StreamPersist ==
    /\ stream.phase = "running"
    /\ node = "END"
    /\ \/ \E c \in RequestChapters :
             /\ db' = StreamRows(c, stream.final_state)
             /\ stream' =
                   IF stream.final_state.story_content.words = 0
                   THEN Close(stream, "error")
                   ELSE [Close(stream, "complete")
                         EXCEPT !.complete = CompletePayload(stream.final_state)]
       \/ /\ db' = db
          /\ stream' = Close(stream, "error")
    /\ UNCHANGED <<wfvars, workers, safety, context>>

\* the client goes away while the generator is suspended in the event loop
StreamCancel ==
    /\ stream.phase = "running"
    /\ node # "END"
    /\ stream' = [stream EXCEPT !.phase = "cancelled"]
    /\ UNCHANGED <<wfvars, svars, safety, context>>

InitStream ==
    /\ stream = NewStream
    /\ node = "generate_content"
    /\ state \in {InitialState(p) : p \in ChildPreferences}
    /\ threshold \in Thresholds
    /\ result = NoResult
    /\ response = NoResponse
    /\ safety = NoSafetyRun
    /\ context = NoContext
    /\ SessionsIdle

NextStream ==
    \/ StreamStart
    \/ StreamGenerateContent
    \/ StreamSafetyCheck
    \/ StreamEnhanceContent
    \/ StreamCalculateMetrics
    \/ StreamRecursionLimit
    \/ StreamPersist
    \/ StreamCancel

SpecStream == InitStream /\ [][NextStream]_vars

(* ----------------------------- stream claims --------------------------- *)

RECURSIVE NodeEventsOf(_)
NodeEventsOf(ran) ==
    IF ran = << >> THEN << >>
    ELSE LET n == Head(ran)
         IN (IF n = "enhance_content" THEN << >>
             ELSE << n \o ":started", n \o ":completed" >>)
            \o NodeEventsOf(Tail(ran))

\* the started and completed events of a stream
NodeEvents(events) ==
    SelectSeq(events, LAMBDA e : e \in { n \o s :
                 n \in {"generate_content", "safety_check", "calculate_metrics"},
                 s \in {":started", ":completed"} })

\* C28: every stream that ended has exactly one terminal event, 'complete'
\* or 'error', as its last event; a successful stream has one 'complete' and
\* no 'error'; and the started and completed events of the nodes appear in
\* pairs, started first, in the order the workflow executed the nodes.
C28_OneTerminalEventInOrder ==
    stream.phase = "closed" =>
       LET events == stream.events
           terminal == { i \in DOMAIN events : events[i] \in {"complete", "error"} }
           expected == NodeEventsOf(stream.ran)
           seen == NodeEvents(events)
       IN /\ terminal = { Len(events) }
          /\ events[Len(events)] = "complete" => seen = expected
          /\ \/ seen = expected
             \/ /\ expected # << >>       \* the last node raised
                /\ seen = SubSeq(expected, 1, Len(expected) - 1)

====
